---- MODULE Spec2Model ----
(***************************************************************************)
(* Model of the friends bot likelihood report application:                 *)
(*   main.py            the pipeline (credentials, Twitter friends IDs,    *)
(*                      Botometer scores, render, dump, email)             *)
(*   modules/twitter.py get_friends_ids                                    *)
(*   modules/botm.py    get_friends_bot_likelihood_scores                  *)
(*   modules/helpers.py logging filter, get_env_vars, report and email     *)
(*                                                                         *)
(* A run starts either from main (which installs the terminating log       *)
(* filter of helpers.init_log_handler) or from the unit tests, which call  *)
(* the collectors and the helpers directly under the conftest.py logger    *)
(* that has no filter.  Upstream answers (pages, score payloads, faults)   *)
(* are chosen when the code asks for them and are remembered in history    *)
(* variables.  A log message is the tuple of the fragments of its          *)
(* f-string, split at the interpolations and at "\n".  INFO and DEBUG      *)
(* records do not change control flow and are left out of the log, except  *)
(* the DEBUG records of create_report_dir.                                 *)
(***************************************************************************)
EXTENDS Integers, Sequences, FiniteSets, TLC

(* ---- bounds ---- *)
NumIds == 3
MaxPageLen == 2
MaxPages == 2

(* ---- program constants ---- *)
DemoScoresLen == 15

Ids == 1..NumIds
username == "alice"

(* ---- Python values: a list or None ---- *)
PyNone == [none |-> TRUE, list |-> <<>>]
PyList(s) == [none |-> FALSE, list |-> s]
bool(s) == s # <<>>

Range(s) == {s[i] : i \in DOMAIN s}
Last(s) == s[Len(s)]
Distinct(s) == \A i, j \in DOMAIN s : i # j => s[i] # s[j]
SeqsUpTo(S, n) == UNION {[1..k -> S] : k \in 0..n}

(* ---- logging ---- *)
LogRecord(level, text) == [level |-> level, text |-> text]

check_log_record_level_never(level) == FALSE
\* TRUE when the filter terminates the application for a record of this level
check_log_record_level(level) == level = "ERROR"

\* the records of recs that are emitted: all of them, or up to the first one
\* on which the installed filter terminates the application
RECURSIVE Emitted(_, _)
Emitted(recs, flt) ==
    IF recs = <<>> THEN <<>>
    ELSE IF flt /\ check_log_record_level(Head(recs).level) THEN <<Head(recs)>>
    ELSE <<Head(recs)>> \o Emitted(Tail(recs), flt)

Exits(recs, flt) == flt /\ \E i \in DOMAIN recs : check_log_record_level(recs[i].level)

Contains(text, phrase) == \E i \in DOMAIN text : text[i] = phrase
Logged(lg, level, phrase) ==
    \E i \in DOMAIN lg : lg[i].level = level /\ Contains(lg[i].text, phrase)

(* ---- credentials ---- *)
ApiEnvVars == <<"TWITTER_API_KEY", "TWITTER_API_SECRET", "BOTOMETER_API_KEY">>
EmailEnvVars == <<"EMAIL_SERVER_DOMAIN", "EMAIL_SERVER_PORT",
                  "EMAIL_SENDER_ADDRESS", "EMAIL_SENDER_PASSWORD">>
AllEnvNames == Range(ApiEnvVars) \cup Range(EmailEnvVars)

RequiredEnvVars_always_all(d) == ApiEnvVars \o EmailEnvVars
RequiredEnvVars_api_only(d) == IF d THEN EmailEnvVars ELSE ApiEnvVars
\* the names main asks get_env_vars for
RequiredEnvVars(d) == IF d THEN EmailEnvVars ELSE ApiEnvVars \o EmailEnvVars

EnvMissingText(name) ==
    <<"Environment variable: ", name,
      " is missing. See prerequisite steps in the README file.">>

\* values an environment variable can hold; the empty string is a value
EnvValues == {"", "v1"}
\* Python's None, as os.environ.get's default
None == "None"
EnvNames(env) == {r.name : r \in env}
\* helpers.py 83: os.environ.get(env_var, None)
os_environ_get(env, name) ==
    IF name \in EnvNames(env)
    THEN (CHOOSE r \in env : r.name = name).value
    ELSE None

EnvLoopBody_skip_empty(env_vars_dict, env_var, env_var_value) ==
    IF env_var_value \notin {None, ""}
    THEN [dict |-> {r \in env_vars_dict : r.name # env_var}
                   \cup {[name |-> env_var, value |-> env_var_value]},
          recs |-> <<>>]
    ELSE [dict |-> env_vars_dict,
          recs |-> <<LogRecord("ERROR", EnvMissingText(env_var))>>]
\* helpers.py 84-96: the body of get_env_vars' loop for one name
EnvLoopBody(env_vars_dict, env_var, env_var_value) ==
    IF env_var_value # None
    THEN [dict |-> {r \in env_vars_dict : r.name # env_var}
                   \cup {[name |-> env_var, value |-> env_var_value]},
          recs |-> <<>>]
    ELSE [dict |-> env_vars_dict,
          recs |-> <<LogRecord("ERROR", EnvMissingText(env_var))>>]

VARIABLES
    pc,          \* position of the run
    entry,       \* "none", "main" or the unit-test entry "unit_..."
    demo,        \* args.demo
    environ,     \* os.environ: set of [name, value]
    filter,      \* check_log_record_level is installed on a handler
    log,         \* emitted WARNING/ERROR/SUCCESS records, in order
    net,         \* kinds of network call made so far (history)
    fatal,       \* fatal conditions of the error taxonomy detected (history)
    env_i,       \* get_env_vars: number of names processed
    creds,       \* get_env_vars: env_vars_dict, a set of [name, value]
    env_vars,    \* get_env_vars: the requested names
    next_cursor, \* tweepy cursor: -1 before the first page, 0 at the end
    current_page,\* tweepy cursor: identifiers of the fetched page not yet yielded
    pages,       \* pages served by the identity-graph API (history)
    friends_ids_list, \* get_friends_ids accumulator
    friends_ids, \* value returned by get_friends_ids
    twtr_status, \* "idle", "running", "returned", "terminated"
    friends,     \* argument of get_friends_bot_likelihood_scores
    responses,   \* what check_accounts_in produced per consumed identifier (history)
    friends_bot_likelihood_scores, \* botm accumulator
    scores,      \* value returned by get_friends_bot_likelihood_scores
    botm_status, \* "idle", "running", "returned", "terminated"
    report_render, \* rendered report, <<>> before rendering
    files,       \* report files written: set of [path, content]
    report_file_path,
    smtp,        \* SMTP events of send_email_report, in order
    dirs,        \* directories that exist
    message,     \* the email message built by send_email_report, <<>> before
    args,        \* arguments of the run: username, datetime_str, reports_dir,
                 \* lang_code
    ret,         \* values returned to a unit test, in order
    raised,      \* exception that reached the caller, "" if none
    twitter_api, \* the tweepy.API object twitter.auth returned, <<>> before
    botometer_api, \* the botometer.Botometer object botm.auth returned, <<>> before
    retries,     \* retries the client has performed for the request in progress
    slept,       \* seconds the client has slept between those retries
    waited       \* the client is waiting for the reset of the rate limit

vars == <<pc, entry, demo, environ, filter, log, net, fatal, env_i, creds, env_vars,
          next_cursor, current_page, pages, friends_ids_list, friends_ids,
          twtr_status, friends, responses, friends_bot_likelihood_scores,
          scores, botm_status, report_render, files, report_file_path, smtp,
          dirs, message, args, ret, raised, twitter_api, botometer_api, retries,
          slept, waited>>

envVars == <<env_i, creds, env_vars>>
twtrVars == <<next_cursor, current_page, pages, friends_ids_list, friends_ids,
              twtr_status>>
botmVars == <<friends, responses, friends_bot_likelihood_scores, scores,
              botm_status>>
reportVars == <<report_render, files, report_file_path, smtp>>
runVars == <<entry, demo, environ, filter>>
helperVars == <<dirs, message, args, ret, raised>>
clientVars == <<twitter_api, botometer_api, retries, slept, waited>>

(* ---- file system ---- *)
\* main.py 109: the default f"{os.getcwd()}/src/reports", relative to the
\* working directory
reports_dir == "src/reports"
TestReportsDir == "./src/test/reports"
InvalidPath == "/somedir/that/does/not/exist"
Parent(path) ==
    CASE path = reports_dir -> "src"
      [] path = TestReportsDir -> "./src/test"
      [] path = InvalidPath -> "/somedir/that/does/not"
\* calls of create_reports_dir a test makes on one path
MaxCalls == 2

Init ==
    /\ pc = "start"
    /\ entry = "none"
    /\ demo = FALSE
    /\ environ = {}
    /\ filter = FALSE
    /\ log = <<>>
    /\ net = {}
    /\ fatal = {}
    /\ env_i = 0
    /\ creds = {}
    /\ env_vars = <<>>
    /\ next_cursor = -1
    /\ current_page = <<>>
    /\ pages = <<>>
    /\ friends_ids_list = <<>>
    /\ friends_ids = PyNone
    /\ twtr_status = "idle"
    /\ friends = PyNone
    /\ responses = <<>>
    /\ friends_bot_likelihood_scores = <<>>
    /\ scores = PyNone
    /\ botm_status = "idle"
    /\ report_render = <<>>
    /\ files = {}
    /\ report_file_path = <<>>
    /\ smtp = <<>>
    /\ dirs = {}
    /\ message = <<>>
    /\ args = [username |-> username, datetime_str |-> "", reports_dir |-> reports_dir,
               lang_code |-> ""]
    /\ ret = <<>>
    /\ raised = ""
    /\ twitter_api = <<>>
    /\ botometer_api = <<>>
    /\ retries = 0
    /\ slept = 0
    /\ waited = FALSE

(* ---- the clients of the two upstream APIs ---- *)
tweepy_API_one_retry ==
    [retry_count |-> 1, retry_delay |-> 3, wait_on_rate_limit |-> TRUE]
\* twitter.py 27-30: tweepy.API(auth, retry_count=2, retry_delay=3,
\* wait_on_rate_limit=True)
tweepy_API ==
    [retry_count |-> 2, retry_delay |-> 3, wait_on_rate_limit |-> TRUE]

\* botm.py 23-29: botometer.Botometer(..., tweepy_kwargs={"retry_count": 2,
\* "retry_delay": 3}, wait_on_ratelimit=True)
botometer_Botometer ==
    [tweepy_kwargs |-> [retry_count |-> 2, retry_delay |-> 3],
     wait_on_ratelimit |-> TRUE]

\* botm.py 50-53: check_accounts_in(..., retries=3), "Retry 3 times for each
\* friend if an exception occurs"
check_accounts_in_retries == 3

\* what the client does with a failed request after n retries: it raises to its
\* caller once retry_count retries were performed ("Retry 2 times if a request
\* fails", twitter.py 28; "once all retires have been exhausted", botm.py 93),
\* and on the rate limit only when it is not told to wait (twitter.py 29)
Surfaces(retry_count, wait_on_rate_limit, n, err) ==
    IF err = "RateLimitError" THEN ~wait_on_rate_limit ELSE n = retry_count

(* ---- main.py: the order of the stages ---- *)
MainAfter_mail_before_write(stage, d) ==
    CASE stage = "get_env_vars" -> IF d THEN "demo_scores" ELSE "twitter_auth"
      [] stage = "twitter_auth" -> "botometer_auth"
      [] stage = "botometer_auth" -> "get_friends_ids"
      [] stage = "get_friends_ids" -> "get_scores"
      [] stage \in {"demo_scores", "get_scores"} -> "render"
      [] stage = "render" -> "create_reports_dir"
      [] stage = "create_reports_dir" -> "send_email_report"
      [] stage = "dump_report" -> "send_email_report"
\* main.py 52-125: the statement main runs once the call of a stage has
\* returned; d is args.demo (main.py 54)
MainAfter(stage, d) ==
    CASE stage = "get_env_vars" -> IF d THEN "demo_scores" ELSE "twitter_auth"
      [] stage = "twitter_auth" -> "botometer_auth"
      [] stage = "botometer_auth" -> "get_friends_ids"
      [] stage = "get_friends_ids" -> "get_scores"
      [] stage \in {"demo_scores", "get_scores"} -> "render"
      [] stage = "render" -> "create_reports_dir"
      [] stage = "create_reports_dir" -> "dump_report"
      [] stage = "dump_report" -> "send_email_report"

(* ---- main.py: start of the run ---- *)
\* main.py 43-51: init_log_handler installs the filter, parse_args reads --demo
MainStart ==
    /\ pc = "start"
    /\ \E d \in BOOLEAN, e \in SUBSET AllEnvNames :
          /\ demo' = d
          /\ environ' = {[name |-> n, value |-> "v1"] : n \in e}
          /\ env_vars' = RequiredEnvVars(d)
    /\ entry' = "main"
    /\ filter' = TRUE
    /\ pc' = "get_env_vars"
    /\ UNCHANGED <<log, net, fatal, env_i, creds, twtrVars, botmVars, reportVars,
                   helperVars>>
    /\ UNCHANGED clientVars

\* the test entry: TestGetEnvVars calls get_env_vars under conftest.py with a
\* patched os.environ
UnitEnvStart ==
    /\ pc = "start"
    /\ \E names \in {ApiEnvVars, <<"TEST_ENV_VAR">>},
          e \in SUBSET [name : Range(ApiEnvVars), value : EnvValues] :
          /\ \A r1, r2 \in e : r1.name = r2.name => r1 = r2
          /\ environ' = e
          /\ env_vars' = names
    /\ entry' = "unit_env"
    /\ pc' = "get_env_vars"
    /\ UNCHANGED <<demo, filter, log, net, fatal, env_i, creds, twtrVars, botmVars,
                   reportVars, helperVars>>
    /\ UNCHANGED clientVars

\* helpers.get_env_vars, one iteration of its loop, and its return to main
GetEnvVars ==
    /\ pc = "get_env_vars"
    /\ IF env_i < Len(env_vars)
       THEN LET env_var == env_vars[env_i + 1]
                body == EnvLoopBody(creds, env_var, os_environ_get(environ, env_var))
            IN /\ creds' = body.dict
               /\ env_i' = env_i + 1
               /\ log' = log \o Emitted(body.recs, filter)
               /\ fatal' = IF env_var \in EnvNames(environ) THEN fatal
                            ELSE fatal \cup {"ConfigurationMissing"}
               /\ pc' = IF Exits(body.recs, filter) THEN "exited" ELSE pc
       ELSE /\ pc' = IF entry # "main" THEN "returned"
                     ELSE MainAfter("get_env_vars", demo)
            /\ UNCHANGED <<log, fatal, env_i, creds>>
    /\ UNCHANGED <<runVars, net, env_vars, twtrVars, botmVars, reportVars, helperVars>>
    /\ UNCHANGED clientVars

(* ---- main.py: authentication ---- *)
\* main.py 82-85, twitter.auth: AppAuthHandler requests a bearer token
TwitterAuth ==
    /\ pc = "twitter_auth"
    /\ IF {"TWITTER_API_KEY", "TWITTER_API_SECRET"} \subseteq EnvNames(creds)
       THEN /\ net' = net \cup {"twitter_auth"}
            /\ \E ok \in BOOLEAN :
                  /\ pc' = IF ok THEN MainAfter("twitter_auth", demo) ELSE "crashed"
                  /\ twitter_api' = IF ok THEN tweepy_API ELSE twitter_api
       ELSE \* KeyError on creds[...]
            /\ pc' = "crashed"
            /\ UNCHANGED <<net, twitter_api>>
    /\ UNCHANGED <<botometer_api, retries, slept, waited>>
    /\ UNCHANGED <<runVars, log, fatal, envVars, twtrVars, botmVars,
                   reportVars, helperVars>>

\* main.py 86-90, botm.auth
BotometerAuth ==
    /\ pc = "botometer_auth"
    /\ IF {"BOTOMETER_API_KEY", "TWITTER_API_KEY", "TWITTER_API_SECRET"} \subseteq EnvNames(creds)
       THEN /\ net' = net \cup {"botometer_auth"}
            /\ \E ok \in BOOLEAN :
                  /\ pc' = IF ok THEN MainAfter("botometer_auth", demo) ELSE "crashed"
                  /\ twtr_status' = IF ok THEN "running" ELSE twtr_status
                  /\ botometer_api' = IF ok THEN botometer_Botometer
                                      ELSE botometer_api
       ELSE /\ pc' = "crashed"
            /\ UNCHANGED <<net, twtr_status, botometer_api>>
    /\ UNCHANGED <<twitter_api, retries, slept, waited>>
    /\ UNCHANGED <<runVars, log, fatal, envVars, next_cursor, current_page, pages,
                   friends_ids_list, friends_ids, botmVars, reportVars, helperVars>>

(* ---- modules/twitter.py: get_friends_ids ---- *)
FetchFailedText(err) ==
    <<"Failed to get @", username, "'s Twitter friends IDs.", "\n", err>>
NoFriendsText ==
    <<"Failed to get any friends IDs for @", username,
      ". It is likely that their account does not have any friends.">>

check_list_populated_always(_list) == TRUE
\* helpers.check_list_populated, as twitter.py uses it
check_list_populated(_list) == bool(_list)

\* the test entry: test_get_friends_ids_* call the function under conftest.py
UnitTwitterStart ==
    /\ pc = "start"
    /\ entry' = "unit_twitter"
    /\ pc' = "get_friends_ids"
    /\ twtr_status' = "running"
    /\ UNCHANGED <<demo, environ, filter, log, net, fatal, envVars, next_cursor,
                   current_page, pages, friends_ids_list, friends_ids, botmVars,
                   reportVars, helperVars>>
    /\ UNCHANGED clientVars

Served == UNION {Range(pages[i]) : i \in DOMAIN pages}
\* the pages the identity-graph API may answer with next: identifiers not served
\* before; an empty page only for an account without friends.  The program
\* never compares identifiers or computes with them, so in the pipeline the
\* pages are taken to serve them in increasing order; the tests serve any
NextPages ==
    {p \in SeqsUpTo(Ids \ Served, MaxPageLen) :
        /\ Distinct(p)
        /\ p = <<>> => pages = <<>>
        /\ entry = "main" => \A i \in DOMAIN p : p[i] = Cardinality(Served) + i}

\* tweepy.Cursor(...).items() asks for the next page (twitter.py 57-59), and the
\* TweepError handler (twitter.py 62-65)
FriendsIdsFetchPage ==
    /\ pc = "get_friends_ids"
    /\ current_page = <<>>
    /\ next_cursor # 0
    /\ net' = net \cup {"friends_ids"}
    /\ \/ \E p \in NextPages, more \in BOOLEAN :
             /\ more => /\ p # <<>>
                        /\ Len(pages) + 1 < MaxPages
                        /\ Ids \ (Served \cup Range(p)) # {}
             /\ pages' = Append(pages, p)
             /\ current_page' = p
             /\ next_cursor' = IF more THEN 1 ELSE 0
             /\ retries' = 0 /\ slept' = 0 /\ waited' = FALSE
             /\ UNCHANGED <<pc, log, fatal, twtr_status>>
       \/ \E err \in {"TweepError", "RateLimitError"} :
             LET recs == <<LogRecord("ERROR", FetchFailedText(err))>> IN
             \* the tests make the mocked call raise TweepError
             /\ IF entry = "main"
                THEN Surfaces(twitter_api.retry_count,
                              twitter_api.wait_on_rate_limit, retries, err)
                ELSE err = "TweepError"
             /\ UNCHANGED <<retries, slept, waited>>
             /\ log' = log \o Emitted(recs, filter)
             /\ fatal' = fatal \cup {"AccountFetchFailed"}
             /\ pc' = IF Exits(recs, filter) THEN "exited" ELSE "friends_ids_check"
             /\ twtr_status' = IF Exits(recs, filter) THEN "terminated" ELSE twtr_status
             /\ UNCHANGED <<pages, current_page, next_cursor>>
    /\ UNCHANGED <<runVars, envVars, friends_ids_list, friends_ids, botmVars,
                   reportVars, helperVars, twitter_api, botometer_api>>

\* inside api.friends_ids: a failed request is retried after retry_delay
\* seconds (twitter.py 28); the tests mock the call
FriendsIdsRetry ==
    /\ pc = "get_friends_ids"
    /\ entry = "main"
    /\ current_page = <<>>
    /\ next_cursor # 0
    /\ retries < twitter_api.retry_count
    /\ retries' = retries + 1
    /\ slept' = slept + twitter_api.retry_delay
    /\ waited' = FALSE
    /\ net' = net \cup {"friends_ids"}
    /\ UNCHANGED <<pc, runVars, log, fatal, envVars, twtrVars, botmVars, reportVars,
                   helperVars, twitter_api, botometer_api>>

\* inside api.friends_ids: the rate limit is exhausted and the client waits for
\* its reset (twitter.py 29)
FriendsIdsRateLimit ==
    /\ pc = "get_friends_ids"
    /\ entry = "main"
    /\ current_page = <<>>
    /\ next_cursor # 0
    /\ twitter_api.wait_on_rate_limit
    /\ retries = 0
    /\ ~waited
    /\ waited' = TRUE
    /\ net' = net \cup {"friends_ids"}
    /\ UNCHANGED <<pc, runVars, log, fatal, envVars, twtrVars, botmVars, reportVars,
                   helperVars, twitter_api, botometer_api, retries, slept>>

AppendFriendId_front(list, friend_id) == <<friend_id>> \o list
\* twitter.py 62: friends_ids_list.append(friend_id)
AppendFriendId(list, friend_id) == Append(list, friend_id)

\* twitter.py 61-62: one identifier of the current page
FriendsIdsAppend ==
    /\ pc = "get_friends_ids"
    /\ current_page # <<>>
    /\ friends_ids_list' = AppendFriendId(friends_ids_list, Head(current_page))
    /\ current_page' = Tail(current_page)
    /\ UNCHANGED <<pc, runVars, log, net, fatal, envVars, next_cursor, pages,
                   friends_ids, twtr_status, botmVars, reportVars, helperVars>>
    /\ UNCHANGED clientVars

\* the cursor is exhausted: the for loop ends
FriendsIdsLoopEnd ==
    /\ pc = "get_friends_ids"
    /\ current_page = <<>>
    /\ next_cursor = 0
    /\ pc' = "friends_ids_check"
    /\ UNCHANGED <<runVars, log, net, fatal, envVars, twtrVars, botmVars,
                   reportVars, helperVars>>
    /\ UNCHANGED clientVars

\* twitter.py 66-76 and the return to the caller (main.py 92-98)
FriendsIdsCheck ==
    /\ pc = "friends_ids_check"
    /\ IF check_list_populated(friends_ids_list)
       THEN /\ friends_ids' = PyList(friends_ids_list)
            /\ twtr_status' = "returned"
            /\ pc' = IF entry = "main" THEN MainAfter("get_friends_ids", demo)
                          ELSE "returned"
            /\ friends' = IF entry = "main" THEN PyList(friends_ids_list) ELSE friends
            /\ botm_status' = IF entry = "main" THEN "running" ELSE botm_status
            /\ UNCHANGED log
       ELSE LET recs == <<LogRecord("ERROR", NoFriendsText)>> IN
            /\ log' = log \o Emitted(recs, filter)
            /\ IF Exits(recs, filter)
               THEN /\ pc' = "exited"
                    /\ twtr_status' = "terminated"
                    /\ UNCHANGED <<friends_ids, friends, botm_status>>
               ELSE /\ friends_ids' = PyNone
                    /\ twtr_status' = "returned"
                    /\ pc' = IF entry = "main" THEN MainAfter("get_friends_ids", demo)
                          ELSE "returned"
                    /\ friends' = IF entry = "main" THEN PyNone ELSE friends
                    /\ botm_status' = IF entry = "main" THEN "running" ELSE botm_status
    /\ fatal' = IF pages = <<<<>>>> /\ "AccountFetchFailed" \notin fatal
                THEN fatal \cup {"AccountHasNoFriends"}   \* an empty, valid list
                ELSE fatal
    /\ UNCHANGED <<runVars, net, envVars, next_cursor, current_page, pages,
                   friends_ids_list, responses, friends_bot_likelihood_scores,
                   scores, reportVars, helperVars>>
    /\ UNCHANGED clientVars

(* ---- modules/botm.py: get_friends_bot_likelihood_scores ---- *)
\* what the transport can raise once the client's retries are exhausted
Faults == {"ConnectionError", "HTTPError", "Timeout", "Exception"}
FullKeys == {"cap", "raw_scores", "display_scores", "screen_name"}
\* key sets of the payloads check_accounts_in can yield: a full score payload,
\* the in-band error payload {"error": err_msg}, and payloads lacking a key
PayloadKeys ==
    {FullKeys, {"error"}, FullKeys \ {"cap"}, FullKeys \ {"raw_scores"},
     FullKeys \ {"screen_name"}}

ScoresFailedText == <<"Failed to get any friends bot likelihood results.">>
ScoresFailedErrText(err) ==
    <<"Failed to get any friends bot likelihood results.", "\n", err>>
ExhaustedText(err) ==
    <<"An exception occurred: ", err,
      " and all retries to Botometer have been exhausted.">>
BotometerErrorText(friend_id) ==
    <<"Botometer returned the following error for friend with ID: ",
      ToString(friend_id), ".", "\n", "error_msg">>
GotResultsText(friend_id) ==
    <<"Got bot likelihood results from Botometer for friend: @", "screen_name",
      ", ", ToString(friend_id)>>

\* botm.py 59-60: the payload carries a (non-empty) error message
error_msg(results) == "error" \in results.keys

\* botm.py 71-74: pop("cap"), pop("raw_scores") or the screen_name lookup raises
RaisesKeyError(results) ==
    ~({"cap", "raw_scores", "screen_name"} \subseteq results.keys)

Popped_keep(results) == [id |-> results.id, keys |-> results.keys]
\* botm.py 71-72: the payload that is appended
Popped(results) == [id |-> results.id, keys |-> results.keys \ {"cap", "raw_scores"}]

LoopBody_append_errors(acc, friend_id, results) ==
    IF ~error_msg(results) /\ RaisesKeyError(results)
    THEN [acc |-> acc, recs |-> <<>>, raised |-> "KeyError"]
    ELSE [acc |-> Append(acc, Popped(results)),
          recs |-> <<LogRecord("SUCCESS", GotResultsText(friend_id))>>,
          raised |-> ""]
LoopBody_error_raises(acc, friend_id, results) ==
    IF error_msg(results) \/ RaisesKeyError(results)
    THEN [acc |-> acc, recs |-> <<>>, raised |-> "KeyError"]
    ELSE [acc |-> Append(acc, Popped(results)),
          recs |-> <<LogRecord("SUCCESS", GotResultsText(friend_id))>>,
          raised |-> ""]
LoopBody_prepend(acc, friend_id, results) ==
    IF error_msg(results)
    THEN [acc |-> acc,
          recs |-> <<LogRecord("WARNING", BotometerErrorText(friend_id))>>,
          raised |-> ""]
    ELSE IF RaisesKeyError(results)
    THEN [acc |-> acc, recs |-> <<>>, raised |-> "KeyError"]
    ELSE [acc |-> <<Popped(results)>> \o acc,
          recs |-> <<LogRecord("SUCCESS", GotResultsText(friend_id))>>,
          raised |-> ""]
LoopBody_replace(acc, friend_id, results) ==
    IF error_msg(results)
    THEN [acc |-> acc,
          recs |-> <<LogRecord("WARNING", BotometerErrorText(friend_id))>>,
          raised |-> ""]
    ELSE IF RaisesKeyError(results)
    THEN [acc |-> acc, recs |-> <<>>, raised |-> "KeyError"]
    ELSE [acc |-> <<Popped(results)>>,
          recs |-> <<LogRecord("SUCCESS", GotResultsText(friend_id))>>,
          raised |-> ""]
LoopBody_wrong_id(acc, friend_id, results) ==
    IF error_msg(results)
    THEN [acc |-> acc,
          recs |-> <<LogRecord("WARNING", BotometerErrorText(friend_id))>>,
          raised |-> ""]
    ELSE IF RaisesKeyError(results)
    THEN [acc |-> acc, recs |-> <<>>, raised |-> "KeyError"]
    ELSE [acc |-> Append(acc, [Popped(results) EXCEPT !.id = 0]),
          recs |-> <<LogRecord("SUCCESS", GotResultsText(friend_id))>>,
          raised |-> ""]
\* botm.py 54-82: the body of the for loop for one (friend_id, results)
LoopBody(acc, friend_id, results) ==
    IF error_msg(results)
    THEN [acc |-> acc,
          recs |-> <<LogRecord("WARNING", BotometerErrorText(friend_id))>>,
          raised |-> ""]
    ELSE IF RaisesKeyError(results)
    THEN [acc |-> acc, recs |-> <<>>, raised |-> "KeyError"]
    ELSE [acc |-> Append(acc, Popped(results)),
          recs |-> <<LogRecord("SUCCESS", GotResultsText(friend_id))>>,
          raised |-> ""]

AfterLoop_drop_last(acc) ==
    IF bool(acc)
    THEN [ret |-> PyList(SubSeq(acc, 1, Len(acc) - 1)), recs |-> <<>>]
    ELSE [ret |-> PyNone, recs |-> <<LogRecord("ERROR", ScoresFailedText)>>]
AfterLoop_return_empty(acc) == [ret |-> PyList(acc), recs |-> <<>>]
\* botm.py 83-92: after the loop
AfterLoop(acc) ==
    IF bool(acc)
    THEN [ret |-> PyList(acc), recs |-> <<>>]
    ELSE [ret |-> PyNone, recs |-> <<LogRecord("ERROR", ScoresFailedText)>>]

ExceptClause_discard(acc, err) ==
    [ret |-> PyNone,
     recs |-> <<LogRecord("WARNING", ExhaustedText(err)),
                LogRecord("ERROR", ScoresFailedErrText(err))>>]
ExceptClause_silent(acc, err) ==
    IF bool(acc)
    THEN [ret |-> PyList(acc), recs |-> <<>>]
    ELSE [ret |-> PyNone,
          recs |-> <<LogRecord("WARNING", ExhaustedText(err)),
                     LogRecord("ERROR", ScoresFailedErrText(err))>>]
ExceptClause_always_return(acc, err) ==
    [ret |-> PyList(acc), recs |-> <<LogRecord("WARNING", ExhaustedText(err))>>]
\* botm.py 100-120: the except clause
ExceptClause(acc, err) ==
    IF bool(acc)
    THEN [ret |-> PyList(acc), recs |-> <<LogRecord("WARNING", ExhaustedText(err))>>]
    ELSE [ret |-> PyNone,
          recs |-> <<LogRecord("WARNING", ExhaustedText(err)),
                     LogRecord("ERROR", ScoresFailedErrText(err))>>]

\* the test entry: test_botometer_auth calls botm.auth on a mocked botometer
\* module and looks at the arguments of the constructor
UnitAuth ==
    /\ pc = "start"
    /\ entry' = "unit_auth"
    /\ botometer_api' = botometer_Botometer
    /\ pc' = "returned"
    /\ UNCHANGED <<demo, environ, filter, log, net, fatal, envVars, twtrVars, botmVars,
                   reportVars, helperVars, twitter_api, retries, slept, waited>>

\* the test entry: test_get_friends_bot_likelihood_scores_* call the function
\* under conftest.py with a list of identifiers
UnitBotmStart ==
    /\ pc = "start"
    /\ \E f \in {s \in SeqsUpTo(Ids, NumIds) : Distinct(s)} : friends' = PyList(f)
    /\ entry' = "unit_botm"
    /\ pc' = "get_scores"
    /\ botm_status' = "running"
    /\ UNCHANGED <<demo, environ, filter, log, net, fatal, envVars, twtrVars,
                   responses, friends_bot_likelihood_scores, scores,
                   reportVars, helperVars>>
    /\ UNCHANGED clientVars

ReturnTo_continue(e) == "get_scores"
\* botm.py 89, 115 and the end of the function: control is back in the caller
ReturnTo(e) == IF e = "main" THEN MainAfter("get_scores", FALSE) ELSE "returned"

\* the function ends: logs recs, then returns ret unless the filter terminates
ScoresEnd(end) ==
    /\ log' = log \o Emitted(end.recs, filter)
    /\ IF Exits(end.recs, filter)
       THEN /\ pc' = "exited"
            /\ botm_status' = "terminated"
            /\ UNCHANGED scores
       ELSE /\ pc' = ReturnTo(entry)
            /\ botm_status' = "returned"
            /\ scores' = end.ret

\* the accounts check_accounts_in can answer for next.  The collector takes the
\* answers as they arrive: under the test entry any requested account not
\* answered yet can be next; in the pipeline the upstream is taken to answer in
\* request order
NextAccounts ==
    IF entry = "unit_botm"
    THEN {friends.list[i] : i \in DOMAIN friends.list}
            \ {responses[i].id : i \in DOMAIN responses}
    ELSE {friends.list[Len(responses) + 1]}

\* botm.py 51-53: check_accounts_in yields the next (friend_id, results), and
\* the loop body runs on it
ScoresYield ==
    /\ pc = "get_scores"
    /\ ~friends.none
    /\ Len(responses) < Len(friends.list)
    /\ \E friend_id \in NextAccounts, k \in PayloadKeys :
          LET results == [id |-> friend_id, keys |-> k]
              body == LoopBody(friends_bot_likelihood_scores, friend_id, results)
          IN /\ responses' = Append(responses, [id |-> friend_id, keys |-> k, raised |-> ""])
             /\ net' = net \cup {"check_account"}
             /\ retries' = 0 /\ slept' = 0 /\ waited' = FALSE
             /\ friends_bot_likelihood_scores' = body.acc
             /\ IF body.raised = ""
                THEN /\ log' = log \o body.recs
                     /\ UNCHANGED <<pc, botm_status, scores>>
                ELSE ScoresEnd(ExceptClause(body.acc, body.raised))
    /\ UNCHANGED <<runVars, fatal, envVars, twtrVars, friends, reportVars, helperVars,
                   twitter_api, botometer_api>>

\* inside check_accounts_in: the request for the next account failed and is
\* made again (botm.py 50-53); the tests mock the call
ScoresRetry ==
    /\ pc = "get_scores"
    /\ entry = "main"
    /\ ~friends.none
    /\ Len(responses) < Len(friends.list)
    /\ retries < check_accounts_in_retries
    /\ retries' = retries + 1
    /\ waited' = FALSE
    /\ net' = net \cup {"check_account"}
    /\ UNCHANGED <<pc, runVars, log, fatal, envVars, twtrVars, botmVars, reportVars,
                   helperVars, twitter_api, botometer_api, slept>>

\* inside check_accounts_in: the rate limit is exhausted and the client waits
\* (botm.py 28)
ScoresRateLimit ==
    /\ pc = "get_scores"
    /\ entry = "main"
    /\ ~friends.none
    /\ Len(responses) < Len(friends.list)
    /\ botometer_api.wait_on_ratelimit
    /\ retries = 0
    /\ ~waited
    /\ waited' = TRUE
    /\ net' = net \cup {"check_account"}
    /\ UNCHANGED <<pc, runVars, log, fatal, envVars, twtrVars, botmVars, reportVars,
                   helperVars, twitter_api, botometer_api, retries, slept>>

\* botm.py 51-53, 100-120: check_accounts_in raises
ScoresRaise ==
    /\ pc = "get_scores"
    /\ \/ /\ friends.none          \* TypeError: iterating None
          /\ ScoresEnd(ExceptClause(friends_bot_likelihood_scores, "TypeError"))
          /\ UNCHANGED <<responses, net, fatal>>
       \/ /\ ~friends.none
          /\ Len(responses) < Len(friends.list)
          /\ \E err \in Faults, friend_id \in NextAccounts :
                /\ entry = "main"
                      => Surfaces(check_accounts_in_retries,
                                  botometer_api.wait_on_ratelimit, retries, err)
                /\ responses' = Append(responses,
                       [id |-> friend_id, keys |-> {}, raised |-> err])
                /\ ScoresEnd(ExceptClause(friends_bot_likelihood_scores, err))
          /\ net' = net \cup {"check_account"}
          /\ fatal' = IF \E i \in DOMAIN responses : responses[i].keys = FullKeys
                      THEN fatal    \* some identifier was scored before the fault
                      ELSE fatal \cup {"ScoringEmptyFailure"}
    /\ UNCHANGED <<runVars, envVars, twtrVars, friends,
                   friends_bot_likelihood_scores, reportVars, helperVars, clientVars>>

\* botm.py 83-92: the generator is exhausted
ScoresLoopEnd ==
    /\ pc = "get_scores"
    /\ ~friends.none
    /\ Len(responses) = Len(friends.list)
    /\ ScoresEnd(AfterLoop(friends_bot_likelihood_scores))
    /\ UNCHANGED <<runVars, net, fatal, envVars, twtrVars, friends, responses,
                   friends_bot_likelihood_scores, reportVars, helperVars>>
    /\ UNCHANGED clientVars

(* ---- main.py: demo scores, render, dump, email ---- *)
\* helpers.get_demo_friends_bot_likelihood_scores: generated records
get_demo_friends_bot_likelihood_scores ==
    [i \in 1..DemoScoresLen |-> [id |-> 0, keys |-> {"display_scores", "screen_name"}]]

\* main.py 62-66
DemoScores ==
    /\ pc = "demo_scores"
    /\ scores' = PyList(get_demo_friends_bot_likelihood_scores)
    /\ pc' = MainAfter("demo_scores", demo)
    /\ UNCHANGED <<runVars, log, net, fatal, envVars, twtrVars, friends, responses,
                   friends_bot_likelihood_scores, botm_status, reportVars, helperVars>>
    /\ UNCHANGED clientVars

\* helpers.get_datetime, as main.py 101 calls it
get_datetime == "datetime_str"

report_template_render_needs_scores(user, friends_scores, datetime_str) ==
    IF friends_scores.none \/ friends_scores.list = <<>>
    THEN [raised |-> "TypeError", render |-> <<>>]
    ELSE [raised |-> "",
          render |-> <<[username |-> user,
                        friends_bot_likelihood_scores |-> friends_scores.list,
                        datetime_str |-> datetime_str]>>]
\* report_template.html rendered by Jinja2: a string made of the three values;
\* its loop over the scores raises on None
report_template_render(user, friends_scores, datetime_str) ==
    IF friends_scores.none
    THEN [raised |-> "TypeError", render |-> <<>>]
    ELSE [raised |-> "",
          render |-> <<[username |-> user,
                        friends_bot_likelihood_scores |-> friends_scores.list,
                        datetime_str |-> datetime_str]>>]

\* helpers.render_report 224-262: the timestamp given to the template is the
\* one the function takes itself (253); the datetime_str its callers pass
\* (main.py 103-107, the tests) is not used
render_report(user, friends_scores, datetime_str) ==
    report_template_render(user, friends_scores, get_datetime)

\* account names and timestamps the report tests pass
Usernames == {"", username}
Datetimes == {"", get_datetime}
\* well-formed score records, as the collector appends them
WellFormedScores ==
    SeqsUpTo([id : Ids, keys : {{"display_scores", "screen_name"}}], MaxPageLen)

\* the test entries: test_render_report_* call render_report, and
\* test_dump_report calls create_reports_dir, render_report and dump_report
\* (these two in the opposite order of main), under conftest.py
UnitReportStart ==
    /\ pc = "start"
    /\ \E e \in {"unit_render", "unit_dump"}, u \in Usernames, d \in Datetimes,
          s \in WellFormedScores :
          /\ entry' = e
          /\ scores' = PyList(s)
          /\ args' = [args EXCEPT !.username = u, !.datetime_str = d,
                                  !.reports_dir = TestReportsDir]
    /\ dirs' = {Parent(TestReportsDir)}
    /\ pc' = "render"
    /\ UNCHANGED <<demo, environ, filter, log, net, fatal, envVars, twtrVars, friends,
                   responses, friends_bot_likelihood_scores, botm_status, reportVars,
                   message, ret, raised>>
    /\ UNCHANGED clientVars

\* main.py 99-107: get_datetime and render_report
Render ==
    /\ pc = "render"
    /\ LET datetime_str == IF entry = "main" THEN get_datetime ELSE args.datetime_str
           r == render_report(args.username, scores, datetime_str)
       IN /\ report_render' = r.render
          /\ raised' = r.raised
          /\ pc' = IF r.raised # "" THEN "crashed"
                   ELSE IF entry = "unit_render" THEN "returned"
                   ELSE IF entry = "main" THEN MainAfter("render", demo)
                   ELSE "create_reports_dir"
    /\ UNCHANGED <<runVars, log, net, fatal, envVars, twtrVars, botmVars, files,
                   report_file_path, smtp, dirs, message, args, ret>>
    /\ UNCHANGED clientVars

DoesNotExistText(path) ==
    <<"Reports directory at path: ", path, " does not exist. Creating...">>
AlreadyExistsText(path) ==
    <<"Reports directory at path: ", path, " already exists.">>
CreateDirFailedText(path) ==
    <<"Failed to create reports directory at path: ", path>>
CreateDirErrText == <<"Failed to create reports directory.", "\n", "OSError">>
WriteFailedText(path) ==
    <<"Failed to write report render to file at path: ", path, ".", "\n", "OSError">>

create_report_dir_recreate(ds, path) ==
    IF Parent(path) \in ds
    THEN [dirs |-> ds \cup {path}, raised |-> "", ret |-> path,
          recs |-> <<LogRecord("DEBUG", DoesNotExistText(path))>>]
    ELSE [dirs |-> ds, raised |-> "OSError", ret |-> None,
          recs |-> <<LogRecord("DEBUG", DoesNotExistText(path)),
                     LogRecord("WARNING", CreateDirFailedText(path))>>]
\* helpers.create_report_dir 201-218; os.mkdir raises OSError when the parent
\* of the path does not exist
create_report_dir(ds, path) ==
    IF path \notin ds
    THEN IF Parent(path) \in ds
         THEN [dirs |-> ds \cup {path}, raised |-> "", ret |-> path,
               recs |-> <<LogRecord("DEBUG", DoesNotExistText(path))>>]
         ELSE [dirs |-> ds, raised |-> "OSError", ret |-> None,
               recs |-> <<LogRecord("DEBUG", DoesNotExistText(path)),
                          LogRecord("WARNING", CreateDirFailedText(path))>>]
    ELSE [dirs |-> ds, raised |-> "", ret |-> path,
          recs |-> <<LogRecord("DEBUG", AlreadyExistsText(path))>>]

\* the test entry: test_create_reports_dir* call the function under conftest.py,
\* once or again on the path it has created
UnitDirStart ==
    /\ pc = "start"
    /\ \E path \in {TestReportsDir, InvalidPath}, ds \in SUBSET {TestReportsDir} :
          /\ args' = [args EXCEPT !.reports_dir = path]
          /\ dirs' = {Parent(TestReportsDir)} \cup ds
    /\ entry' = "unit_dir"
    /\ pc' = "create_reports_dir"
    /\ UNCHANGED <<demo, environ, filter, log, net, fatal, envVars, twtrVars, botmVars,
                   reportVars, message, ret, raised>>
    /\ UNCHANGED clientVars

\* the directories create_report_dir can find: in a run of main the working
\* directory holds neither src nor src/reports, src only, or both; a test has
\* prepared them
WorkingDirs ==
    IF entry = "main"
    THEN {{}, {Parent(reports_dir)}, {Parent(reports_dir), reports_dir}}
    ELSE {dirs}

\* main.py 108-109 and the tests' calls: create_report_dir; in the pipeline its
\* OSError is handled as helpers.dump_report 276-280 handles it
CreateReportsDir ==
    /\ pc = "create_reports_dir"
    /\ \E ds \in WorkingDirs :
       LET r == create_report_dir(ds, args.reports_dir)
           recs == IF r.raised = "" \/ entry = "unit_dir" THEN r.recs
                   ELSE r.recs \o <<LogRecord("ERROR", CreateDirErrText)>>
       IN /\ dirs' = r.dirs
          /\ log' = log \o Emitted(recs, filter)
          /\ raised' = r.raised
          /\ ret' = IF r.raised = "" THEN Append(ret, r.ret) ELSE ret
          /\ fatal' = IF args.reports_dir \in ds \/ Parent(args.reports_dir) \in ds
                      THEN fatal
                      ELSE fatal \cup {"ReportWriteFailed"}
          /\ pc' = IF Exits(recs, filter) THEN "exited"
                   ELSE IF r.raised # "" THEN "crashed"
                   ELSE IF entry = "main" THEN MainAfter("create_reports_dir", demo)
                   ELSE IF entry # "unit_dir" THEN "dump_report"
                   ELSE IF Len(ret) + 1 < MaxCalls THEN "create_reports_dir"
                   ELSE "returned"
    /\ UNCHANGED <<runVars, net, envVars, twtrVars, botmVars, reportVars, message, args>>
    /\ UNCHANGED clientVars

\* helpers.dump_report 282: the path of the report file
ReportFilePath(dir, user) == <<dir, "/@", user, "_friends_report.html">>

\* main.py 110-115, helpers.dump_report 281-292; open or write can raise OSError
DumpReport ==
    /\ pc = "dump_report"
    /\ LET path == ReportFilePath(args.reports_dir, args.username) IN
       \/ /\ files' = files \cup {[path |-> path, content |-> report_render[1]]}
          /\ report_file_path' = path
          /\ pc' = IF entry = "main" THEN MainAfter("dump_report", demo)
                   ELSE "returned"
          /\ UNCHANGED <<log, fatal>>
       \/ LET recs == <<LogRecord("ERROR", WriteFailedText(path))>> IN
          /\ log' = log \o Emitted(recs, filter)
          /\ fatal' = fatal \cup {"ReportWriteFailed"}
          /\ report_file_path' = IF Exits(recs, filter) THEN report_file_path
                                 ELSE path
          /\ pc' = IF Exits(recs, filter) THEN "exited"
                   ELSE IF entry = "main" THEN MainAfter("dump_report", demo)
                   ELSE "returned"
          /\ UNCHANGED files
    /\ UNCHANGED <<runVars, net, envVars, twtrVars, botmVars, report_render, smtp,
                   helperVars>>
    /\ UNCHANGED clientVars

OpenFailedText == <<"Failed to open report at path: {report_file_path}.\n{err}">>
SendFailedText ==
    <<"Failed to send email from: ", "email_sender_addr", " to: ",
      "email_recipient_addr", " using the email server: ", "email_server", ".",
      "\n", "err">>
SentText ==
    <<"Sent email to: ", "email_recipient_addr",
      " with the friends bot likelihood report attached.">>
SmtpErrors == {"SMTPAuthenticationError", "SMTPRecipientsRefused",
               "SMTPSenderRefused", "SMTPDataError"}

\* main.py 116-125, helpers.send_email_report 321-355: the message with the
\* report attached
SendEmailReport ==
    /\ pc = "send_email_report"
    /\ IF \A f \in files : f.path # report_file_path
       THEN \* open() raises OSError (333-344); without the filter report_part
            \* is unbound at 347
            LET recs == <<LogRecord("ERROR", OpenFailedText)>> IN
            /\ log' = log \o Emitted(recs, filter)
            /\ pc' = IF Exits(recs, filter) THEN "exited" ELSE "crashed"
            /\ UNCHANGED message
       ELSE /\ message' = [to |-> "email_recipient_addr",
                           attachments |-> <<report_file_path>>]
            /\ pc' = "smtp_connect"
            /\ UNCHANGED log
    /\ UNCHANGED <<runVars, net, fatal, envVars, twtrVars, botmVars, reportVars, dirs,
                   args, ret, raised>>
    /\ UNCHANGED clientVars

SmtpAfter_skip_login(step) ==
    CASE step = "connect" -> "smtp_sendmail"
      [] step = "login" -> "smtp_sendmail"
      [] step = "sendmail" -> "done"
\* helpers.py 364-375: the position after a successful call on the connection
SmtpAfter(step) ==
    CASE step = "connect" -> "smtp_login"
      [] step = "login" -> "smtp_sendmail"
      [] step = "sendmail" -> "done"

\* helpers.py 359-367: SMTP_SSL connects; a refused connection is not one of the
\* caught exceptions
SmtpConnect ==
    /\ pc = "smtp_connect"
    /\ net' = net \cup {"smtp"}
    /\ \/ /\ smtp' = Append(smtp, "connect")
          /\ pc' = SmtpAfter("connect")
       \/ /\ pc' = "crashed"
          /\ UNCHANGED smtp
    /\ UNCHANGED <<runVars, log, fatal, envVars, twtrVars, botmVars, report_render,
                   files, report_file_path, helperVars>>
    /\ UNCHANGED clientVars

\* a caught SMTP error: helpers.py 376-386
SmtpFailed(event) ==
    LET recs == <<LogRecord("ERROR", SendFailedText)>> IN
    /\ smtp' = Append(smtp, event)
    /\ log' = log \o Emitted(recs, filter)
    /\ pc' = IF Exits(recs, filter) THEN "exited" ELSE "done"

\* helpers.py 369: login
SmtpLogin ==
    /\ pc = "smtp_login"
    /\ \/ /\ smtp' = Append(smtp, "login")
          /\ pc' = SmtpAfter("login")
          /\ UNCHANGED log
       \/ SmtpFailed("login_failed")
    /\ UNCHANGED <<runVars, net, fatal, envVars, twtrVars, botmVars, report_render,
                   files, report_file_path, helperVars>>
    /\ UNCHANGED clientVars

\* helpers.py 370-375: sendmail and the success message
SmtpSendmail ==
    /\ pc = "smtp_sendmail"
    /\ \/ /\ smtp' = Append(smtp, "sendmail")
          /\ log' = log \o <<LogRecord("SUCCESS", SentText)>>
          /\ pc' = SmtpAfter("sendmail")
       \/ SmtpFailed("sendmail_failed")
    /\ UNCHANGED <<runVars, net, fatal, envVars, twtrVars, botmVars, report_render,
                   files, report_file_path, helperVars>>
    /\ UNCHANGED clientVars

(* ---- helpers.get_lang_from_code ---- *)
\* pycountry.languages.get(alpha_2=...): the ISO 639-1 table, None when no
\* language has that two-letter code
pycountry_languages_get(alpha_2) ==
    CASE alpha_2 = "en" -> "English"
      [] alpha_2 = "de" -> "German"
      [] alpha_2 = "fr" -> "French"
      [] alpha_2 = "es" -> "Spanish"
      [] OTHER -> None

get_lang_from_code_echo(lang_code) ==
    LET language == pycountry_languages_get(lang_code) IN
    IF language # None THEN language ELSE lang_code
\* helpers.py 163-185
get_lang_from_code(lang_code) ==
    LET language == pycountry_languages_get(lang_code) IN
    IF language # None THEN language ELSE "Unknown"

LangCodes == {"en", "de", "fr", "es", "", "xx", "eng", "This is not a language code"}

\* the test entry: test_get_lang_from_code
UnitLang ==
    /\ pc = "start"
    /\ \E lang_code \in LangCodes :
          /\ args' = [args EXCEPT !.lang_code = lang_code]
          /\ ret' = <<get_lang_from_code(lang_code)>>
    /\ entry' = "unit_lang"
    /\ pc' = "returned"
    /\ UNCHANGED <<demo, environ, filter, log, net, fatal, envVars, twtrVars, botmVars,
                   reportVars, dirs, message, raised>>
    /\ UNCHANGED clientVars

Next ==
    \/ DemoScores
    \/ Render
    \/ CreateReportsDir
    \/ DumpReport
    \/ SendEmailReport
    \/ SmtpConnect
    \/ SmtpLogin
    \/ SmtpSendmail
    \/ UnitBotmStart
    \/ ScoresYield
    \/ ScoresRaise
    \/ ScoresLoopEnd
    \/ MainStart
    \/ TwitterAuth
    \/ BotometerAuth
    \/ UnitTwitterStart
    \/ FriendsIdsFetchPage
    \/ FriendsIdsAppend
    \/ FriendsIdsLoopEnd
    \/ FriendsIdsCheck
    \/ GetEnvVars
    \/ UnitEnvStart
    \/ UnitReportStart
    \/ UnitDirStart
    \/ UnitLang
    \/ UnitAuth
    \/ FriendsIdsRetry
    \/ FriendsIdsRateLimit
    \/ ScoresRetry
    \/ ScoresRateLimit

Spec == Init /\ [][Next]_vars

(* ======================= properties ======================= *)
IsScored(r) == r.raised = "" /\ r.keys = FullKeys
IsInBandError(r) == r.raised = "" /\ r.keys = {"error"}
IdsOf(recs) == [i \in DOMAIN recs |-> recs[i].id]
\* identifiers the upstream scored successfully, in order of arrival
ScoredIds == IdsOf(SelectSeq(responses, IsScored))
TransportFault == responses # <<>> /\ Last(responses).raised \in Faults
\* every consumed reply was a full payload or an in-band error
NoFault == \A i \in DOMAIN responses : IsScored(responses[i]) \/ IsInBandError(responses[i])
\* the loop was left by an exception: a transport fault, or a KeyError on a
\* payload that lacks a key
LoopRaised ==
    responses # <<>> /\ ~IsScored(Last(responses)) /\ ~IsInBandError(Last(responses))
CollectorEnded == botm_status \in {"returned", "terminated"}

\* C1: when the scoring transport raises after k >= 1 records were accumulated,
\* the collector does not raise and returns exactly those k records, in order.
C1_PartialKept ==
    (CollectorEnded /\ TransportFault /\ ScoredIds # <<>>)
        => /\ botm_status = "returned"
           /\ ~scores.none
           /\ Len(scores.list) = Len(ScoredIds)
           /\ IdsOf(scores.list) = ScoredIds

\* C1 witness: a fault on the third of three identifiers after two records
C1_Witness ==
    /\ botm_status = "returned"
    /\ TransportFault
    /\ Len(friends.list) = 3
    /\ Len(responses) = 3
    /\ Len(scores.list) = 2

\* C2: when the scoring transport raises with no record accumulated, the
\* collector logs the error "Failed to get any friends bot likelihood results."
\* and returns no list; in the pipeline the run terminates there.
C2_EmptyDueToError ==
    (CollectorEnded /\ TransportFault /\ ScoredIds = <<>>)
        => /\ Logged(log, "ERROR", "Failed to get any friends bot likelihood results.")
           /\ scores.none
           /\ entry = "main" => (pc = "exited" /\ botm_status = "terminated"
                                 /\ report_render = <<>>)

\* C2 witness: a pipeline run terminated by a fault on the first identifier
C2_Witness ==
    /\ entry = "main"
    /\ pc = "exited"
    /\ Len(responses) = 1
    /\ TransportFault

\* the value the collector returns for a fault-free reply vector (keys per identifier)
RECURSIVE CollectAll(_, _, _)
CollectAll(fr, ks, acc) ==
    IF fr = <<>> THEN AfterLoop(acc).ret
    ELSE CollectAll(Tail(fr), Tail(ks),
                    LoopBody(acc, Head(fr), [id |-> Head(fr), keys |-> Head(ks)]).acc)
CompleteRuns(fr) == [DOMAIN fr -> {FullKeys, {"error"}}]

\* C3 as claimed: the returned value lets a caller tell a result truncated by a
\* transport fault from the result of a run that finished all identifiers.
C3_StatusCarried ==
    (botm_status = "returned" /\ TransportFault /\ ~scores.none)
        => \A ks \in CompleteRuns(friends.list) :
               CollectAll(friends.list, ks, <<>>) # scores

\* C3 amended: the collector returns only the accumulated list (or nothing): a
\* returned list is non-empty and equal to the records of the identifiers
\* scored, whether or not a fault ended the run; an exception in the loop shows
\* only as the logged warning, and nothing is returned exactly when the error
\* "Failed to get any friends bot likelihood results." was logged.
C3_ListOnly ==
    botm_status = "returned"
        => /\ ~scores.none => /\ scores.list # <<>>
                              /\ IdsOf(scores.list) = ScoredIds
                              /\ scores.list = friends_bot_likelihood_scores
           /\ DOMAIN scores = {"none", "list"}
           /\ LoopRaised <=>
                  Logged(log, "WARNING", " and all retries to Botometer have been exhausted.")
           /\ scores.none <=>
                  Logged(log, "ERROR", "Failed to get any friends bot likelihood results.")

\* C3 witness: a list returned after a fault that a complete run also returns
C3_Witness ==
    /\ botm_status = "returned"
    /\ TransportFault
    /\ ~scores.none
    /\ \E ks \in CompleteRuns(friends.list) :
           CollectAll(friends.list, ks, <<>>) = scores

\* C4: in the pipeline, when every identifier gets a successful payload and no
\* fault occurs, the final sequence has exactly one record per friend and every
\* record's identifier is in the list get_friends_ids returned.
C4_AllScored ==
    (entry = "main" /\ CollectorEnded /\ ~friends.none
       /\ Len(responses) = Len(friends.list)
       /\ \A i \in DOMAIN responses : IsScored(responses[i]))
        => /\ botm_status = "returned"
           /\ ~scores.none
           /\ Len(scores.list) = Cardinality(Served)
           /\ Len(scores.list) = Len(friends_ids.list)
           /\ \A i \in DOMAIN scores.list : scores.list[i].id \in Range(friends_ids.list)
           /\ report_render # <<>> =>
                  report_render[1].friends_bot_likelihood_scores = scores.list

\* C4 witness: a pipeline run over two pages, all three friends scored, email sent
C4_Witness ==
    /\ entry = "main"
    /\ pc = "done"
    /\ Len(pages) = 2
    /\ Len(scores.list) = 3
    /\ \A i \in DOMAIN responses : IsScored(responses[i])
    /\ smtp = <<"connect", "login", "sendmail">>

C6_RecordsRequestedAndScored ==
    botm_status # "idle"
        => \A rec \in Range(friends_bot_likelihood_scores) \cup Range(scores.list) :
               /\ rec.id \in Range(friends.list)
               /\ \E i \in DOMAIN responses :
                      /\ responses[i].id = rec.id
                      /\ IsScored(responses[i])
               /\ \A i \in DOMAIN responses :
                      responses[i].id = rec.id => ~IsInBandError(responses[i])

\* C6 witness: a run ended by a fault after an in-band error and a record
C6_Witness ==
    /\ botm_status = "returned"
    /\ TransportFault
    /\ \E i \in DOMAIN responses : IsInBandError(responses[i])
    /\ Len(scores.list) = 1
    /\ Len(responses) = Len(friends.list)

ZeroFriendsRun == pages = <<<<>>>> /\ "AccountFetchFailed" \notin fatal
FirstPageFailedRun == pages = <<>> /\ "AccountFetchFailed" \in fatal
TwtrEnded == twtr_status \in {"returned", "terminated"}

\* C7: a valid account with zero friends is reported with the error "Failed to
\* get any friends IDs for @<username>. It is likely that the account does not
\* have any friends.", a failed first page with "Failed to get @<username>'s
\* Twitter friends IDs.", and neither run reports the other's condition.
C7_DistinctFetchErrors ==
    /\ (TwtrEnded /\ ZeroFriendsRun)
         => /\ \E j \in DOMAIN log :
                   /\ log[j].level = "ERROR"
                   /\ log[j].text = <<"Failed to get any friends IDs for @", username,
                         ". It is likely that the account does not have any friends.">>
            /\ ~Logged(log, "ERROR", "'s Twitter friends IDs.")
    /\ (TwtrEnded /\ FirstPageFailedRun)
         => /\ Logged(log, "ERROR", "'s Twitter friends IDs.")
            /\ ~Logged(log, "ERROR", "Failed to get any friends IDs for @")

\* C8: when a page fetch fails, on the first or a later page, get_friends_ids
\* never returns a list of the identifiers fetched before the failure.
C8_NoPartialFriendsList ==
    (twtr_status = "returned" /\ "AccountFetchFailed" \in fatal) => friends_ids.none

\* the secrets the run uses: the mail credentials, and the API keys unless --demo
NeededSecrets == IF demo THEN Range(EmailEnvVars) ELSE AllEnvNames

\* C9: in a pipeline run with a required secret absent from the environment no
\* network call is ever made: the run stays in get_env_vars until it terminates
\* there with the logged configuration error.
C9_NoNetworkWithoutSecrets ==
    (entry = "main" /\ ~(NeededSecrets \subseteq EnvNames(environ)))
        => /\ net = {}
           /\ smtp = <<>>
           /\ pc \in {"get_env_vars", "exited"}
           /\ pc = "exited" =>
                  Logged(log, "ERROR",
                         " is missing. See prerequisite steps in the README file.")

\* C9 witness: only the last mail secret is missing and the run has terminated
C9_Witness ==
    /\ entry = "main"
    /\ ~demo
    /\ EnvNames(environ) = AllEnvNames \ {"EMAIL_SENDER_PASSWORD"}
    /\ pc = "exited"
    /\ env_i = 7

ProcessedEnvVars == {env_vars[i] : i \in 1..env_i}

FairSpec == Init /\ [][Next]_vars /\ WF_vars(Next)

\* the collector returned to main after a transport fault that followed at
\* least one scored identifier
PartialReturn ==
    entry = "main" /\ TransportFault /\ ScoredIds # <<>> /\ CollectorEnded

DumpSucceeded ==
    /\ entry \in {"main", "unit_dump"}
    /\ report_file_path # <<>>
    /\ ~Logged(log, "ERROR", "Failed to write report render to file at path: ")

\* C13: the report sink writes the file
\* <reports_dir>/@<account>_friends_bot_likelihood_report.html holding the
\* rendered string and returns that path, so that a file exists at it.
C13_ReportFileWritten ==
    DumpSucceeded =>
        /\ report_file_path = <<args.reports_dir, "/@", args.username,
                                "_friends_bot_likelihood_report.html">>
        /\ \E f \in files : f.path = report_file_path /\ f.content = report_render[1]

RecognisedCodes == {"en", "de", "fr", "es"}

\* C14: get_lang_from_code returns the language name for a recognised
\* two-letter code ("en" English, "de" German, "fr" French) and "Unknown" for
\* every other input: the empty string, an unrecognised two-letter code, a
\* three-letter code, an arbitrary string.
C14_LangFromCode ==
    (entry = "unit_lang" /\ pc = "returned") =>
        /\ args.lang_code = "en" => ret = <<"English">>
        /\ args.lang_code = "de" => ret = <<"German">>
        /\ args.lang_code = "fr" => ret = <<"French">>
        /\ args.lang_code \in RecognisedCodes => ret # <<"Unknown">>
        /\ args.lang_code \notin RecognisedCodes => ret = <<"Unknown">>

\* the three-letter code is not recognised
C14_Witness ==
    /\ entry = "unit_lang"
    /\ pc = "returned"
    /\ args.lang_code = "eng"
    /\ ret = <<"Unknown">>

SendmailCalls == {i \in DOMAIN smtp : smtp[i] \in {"sendmail", "sendmail_failed"}}

\* C16: in every run sendmail is invoked at most once, only after the SSL
\* connection was established and login succeeded on it, with the one report
\* file attached; the success message is logged only after sendmail returned
\* without error.
C16_SendmailOnce ==
    /\ Cardinality(SendmailCalls) <= 1
    /\ \A i \in SendmailCalls :
          /\ \E c, l \in 1..(i - 1) :
                c < l /\ smtp[c] = "connect" /\ smtp[l] = "login"
          /\ message # <<>>
          /\ message.attachments = <<report_file_path>>
          /\ \E f \in files : f.path = report_file_path
    /\ Logged(log, "SUCCESS", " with the friends bot likelihood report attached.")
          => (smtp # <<>> /\ Last(smtp) = "sendmail")
    /\ (smtp # <<>> /\ Last(smtp) = "sendmail_failed")
          => (log # <<>> /\ Last(log) = LogRecord("ERROR", SendFailedText))

\* sendmail returned and the success message is the last record
C16_Witness ==
    /\ smtp = <<"connect", "login", "sendmail">>
    /\ Last(log) = LogRecord("SUCCESS", SentText)
    /\ message.attachments = <<report_file_path>>

\* every requested identifier was answered with an in-band error
AllInBandErrors ==
    /\ ~friends.none
    /\ friends.list # <<>>
    /\ Len(responses) = Len(friends.list)
    /\ \A i \in DOMAIN responses : IsInBandError(responses[i])

\* C17: when every requested identifier yields an in-band error and no
\* transport fault occurs, the collector logs the terminating error "Failed to
\* get any friends bot likelihood results." and returns no result list.
C17_AllErrorsFail ==
    (AllInBandErrors /\ CollectorEnded) =>
        /\ scores.none
        /\ Last(log) = LogRecord("ERROR", ScoresFailedText)
        /\ filter => (pc = "exited" /\ botm_status = "terminated")
        /\ ~filter => botm_status = "returned"

\* two identifiers, two in-band errors, under the test logger
C17_Witness ==
    /\ entry = "unit_botm"
    /\ AllInBandErrors
    /\ Len(friends.list) = 2
    /\ botm_status = "returned"
    /\ scores.none

\* C18: create_reports_dir(reports_dir=p) creates p when it is absent and
\* returns p; every further call on the now existing p creates nothing, logs
\* "Reports directory at path: <p> already exists." and returns the same p.
C18_CreateIdempotent ==
    (entry = "unit_dir" /\ raised = "") =>
        /\ Len(log) = Len(ret)
        /\ \A i \in DOMAIN ret : ret[i] = args.reports_dir
        /\ ret # <<>> => args.reports_dir \in dirs
        /\ \A i \in DOMAIN log :
              /\ log[i].level = "DEBUG"
              /\ i > 1 => log[i].text = AlreadyExistsText(args.reports_dir)

\* the first call created the directory, the second one skipped the creation
C18_Witness ==
    /\ entry = "unit_dir"
    /\ pc = "returned"
    /\ ret = <<TestReportsDir, TestReportsDir>>
    /\ log[1].text = DoesNotExistText(TestReportsDir)
    /\ log[2].text = AlreadyExistsText(TestReportsDir)
    /\ TestReportsDir \in dirs

\* C19: create_reports_dir(reports_dir=p) for a p whose parent does not exist
\* logs "Failed to create reports directory at path: <p>." and completes
\* without an exception reaching the caller.
C19_FailureLoggedNoRaise ==
    (entry = "unit_dir" /\ args.reports_dir = InvalidPath /\ pc # "create_reports_dir") =>
        /\ \E i \in DOMAIN log :
              log[i].text = <<"Failed to create reports directory at path: ",
                              InvalidPath, ".">>
        /\ raised = ""
        /\ pc = "returned"

RECURSIVE Flatten(_)
Flatten(ps) == IF ps = <<>> THEN <<>> ELSE Head(ps) \o Flatten(Tail(ps))

\* C20: with no upstream failure get_friends_ids follows the cursor to its end
\* and returns the concatenation of all pages in response order, every
\* identifier once and in its within-page order (nothing is returned when that
\* concatenation is empty).
C20_ConcatPages ==
    (twtr_status = "returned" /\ "AccountFetchFailed" \notin fatal) =>
        /\ next_cursor = 0
        /\ current_page = <<>>
        /\ IF Flatten(pages) # <<>>
           THEN friends_ids = PyList(Flatten(pages))
           ELSE friends_ids.none
        /\ entry = "main" => friends = friends_ids

\* two pages were fetched and returned as one list
C20_Witness ==
    /\ twtr_status = "returned"
    /\ "AccountFetchFailed" \notin fatal
    /\ Len(pages) = 2
    /\ Len(pages[1]) = 2
    /\ friends_ids.list = pages[1] \o pages[2]
    /\ Len(friends_ids.list) = 3

\* a transport fault was raised for the i-th consumed identifier
FaultAt(i) == responses[i].raised \in Faults

\* C21 as stated: an identifier whose retries are exhausted by a transport
\* fault is skipped like an in-band error and the loop goes on, so that every
\* requested identifier has been answered when the collector ends.
C21_FaultSkipped ==
    (CollectorEnded /\ ~friends.none /\ \E i \in DOMAIN responses : FaultAt(i)) =>
        \A k \in DOMAIN friends.list :
            \E i \in DOMAIN responses : responses[i].id = friends.list[k]

\* C21, amended: a transport fault raised for one identifier ends the loop.  It
\* is the last response consumed, the warning about the exhausted retries is
\* logged, no later identifier is requested, and the collector ends with the
\* records accumulated before the fault.
C21_FaultEndsLoop ==
    \A i \in DOMAIN responses :
        FaultAt(i) =>
            /\ i = Len(responses)
            /\ CollectorEnded
            /\ pc # "get_scores"
            /\ Logged(log, "WARNING",
                      " and all retries to Botometer have been exhausted.")
            /\ IdsOf(friends_bot_likelihood_scores)
                  = IdsOf(SelectSeq(SubSeq(responses, 1, i - 1), IsScored))
            /\ bool(friends_bot_likelihood_scores) =>
                  scores = PyList(friends_bot_likelihood_scores)

\* the fault hit the second of three identifiers: the third is never requested
C21_Witness ==
    /\ Len(friends.list) = 3
    /\ Len(responses) = 2
    /\ IsScored(responses[1])
    /\ FaultAt(2)
    /\ botm_status = "returned"
    /\ Len(scores.list) = 1

\* C23: the returned records are in arrival order: when the answer for a is
\* consumed before the answer for b and both are scored, the record of a
\* precedes the record of b, whatever their positions in the request list.
C23_ArrivalOrder ==
    (botm_status = "returned" /\ ~scores.none) =>
        \A i, j \in DOMAIN responses :
            (i < j /\ IsScored(responses[i]) /\ IsScored(responses[j])) =>
                \E a, b \in DOMAIN scores.list :
                    /\ a < b
                    /\ scores.list[a].id = responses[i].id
                    /\ scores.list[b].id = responses[j].id

\* the answers arrived in the reverse of the request order
C23_Witness ==
    /\ entry = "unit_botm"
    /\ botm_status = "returned"
    /\ Len(friends.list) = 2
    /\ Len(responses) = 2
    /\ responses[1].id = friends.list[2]
    /\ IdsOf(scores.list) = <<friends.list[2], friends.list[1]>>

\* C27: the accumulated list is append-only: a step leaves it unchanged or
\* appends one record at its end, and only when it consumes a scored response;
\* its length never exceeds the number of responses consumed, and the list
\* returned is the accumulated one.
C27_AppendOnly ==
    [][/\ \/ friends_bot_likelihood_scores' = friends_bot_likelihood_scores
          \/ /\ Len(friends_bot_likelihood_scores')
                   = Len(friends_bot_likelihood_scores) + 1
             /\ SubSeq(friends_bot_likelihood_scores', 1,
                       Len(friends_bot_likelihood_scores))
                   = friends_bot_likelihood_scores
             /\ Len(responses') = Len(responses) + 1
             /\ IsScored(Last(responses'))
       /\ Len(friends_bot_likelihood_scores') <= Len(responses')
       /\ (Len(responses') = Len(responses) + 1 /\ IsInBandError(Last(responses')))
             => friends_bot_likelihood_scores' = friends_bot_likelihood_scores
       /\ (botm_status' = "returned" /\ ~scores'.none)
             => scores'.list = friends_bot_likelihood_scores'
      ]_vars

\* two records were appended around an in-band error
C27_Witness ==
    /\ Len(responses) = 3
    /\ IsScored(responses[1])
    /\ IsInBandError(responses[2])
    /\ IsScored(responses[3])
    /\ Len(friends_bot_likelihood_scores) = 2
    /\ scores = PyList(friends_bot_likelihood_scores)

\* C29: no accumulated or returned record holds "cap" or "raw_scores", and the
\* records are exactly those of the payloads that held "cap", "raw_scores" and
\* the screen name: a payload lacking one of them is never appended.
C29_CapRawScoresRemoved ==
    botm_status # "idle" =>
        /\ \A i \in DOMAIN friends_bot_likelihood_scores :
              friends_bot_likelihood_scores[i].keys \cap {"cap", "raw_scores"} = {}
        /\ ~scores.none =>
              \A i \in DOMAIN scores.list :
                  scores.list[i].keys \cap {"cap", "raw_scores"} = {}
        /\ \A i \in DOMAIN responses :
              ~({"cap", "raw_scores", "screen_name"} \subseteq responses[i].keys) =>
                  \A k \in DOMAIN friends_bot_likelihood_scores :
                      friends_bot_likelihood_scores[k].id # responses[i].id

\* a payload without "cap" followed a scored one: only the first is returned
C29_Witness ==
    /\ Len(responses) = 2
    /\ IsScored(responses[1])
    /\ responses[2].keys = FullKeys \ {"cap"}
    /\ botm_status = "returned"
    /\ Len(scores.list) = 1
    /\ scores.list[1].keys = {"display_scores", "screen_name"}

\* C30: the collector terminates: it consumes at most one response per
\* requested identifier, nothing after the first raised fault, and then either
\* returns the accumulated list or logs the terminating error.
C30_CollectorTerminates ==
    /\ [](/\ friends.none => responses = <<>>
          /\ ~friends.none =>
                /\ Len(responses) <= Len(friends.list)
                /\ \A i \in DOMAIN responses :
                      \E k \in DOMAIN friends.list : friends.list[k] = responses[i].id
          /\ \A i, j \in DOMAIN responses : i # j => responses[i].id # responses[j].id
          /\ \A i \in DOMAIN responses :
                (~IsScored(responses[i]) /\ ~IsInBandError(responses[i]))
                    => i = Len(responses)
          /\ CollectorEnded =>
                \/ /\ botm_status = "returned"
                   /\ bool(friends_bot_likelihood_scores)
                   /\ scores = PyList(friends_bot_likelihood_scores)
                \/ /\ ~bool(friends_bot_likelihood_scores)
                   /\ scores.none
                   /\ Logged(log, "ERROR",
                             "Failed to get any friends bot likelihood results."))
    /\ (botm_status = "running" ~> CollectorEnded)

\* the collector ended after a fault with identifiers left unrequested
C30_Witness ==
    /\ CollectorEnded
    /\ Len(friends.list) = 3
    /\ Len(responses) = 1
    /\ FaultAt(1)
    /\ scores.none


\* C28: in a run of main without --demo the collector is never invoked with an
\* empty or absent identifier list: a failed fetch or an account without
\* friends ends the run inside get_friends_ids, before botm is called.
C28_CollectorNeedsFriends ==
    (entry = "main" /\ ~demo) =>
        /\ (botm_status # "idle" \/ responses # <<>> \/ "check_account" \in net)
              => /\ ~friends.none
                 /\ friends.list # <<>>
                 /\ friends = friends_ids
                 /\ fatal \cap {"AccountFetchFailed", "AccountHasNoFriends"} = {}
        /\ fatal \cap {"AccountFetchFailed", "AccountHasNoFriends"} # {}
              => /\ twtr_status = "terminated"
                 /\ pc = "exited"
                 /\ botm_status = "idle"

\* a later page of the fetch failed in main: identifiers were collected, the
\* run ended and the collector was never called
C28_Witness ==
    /\ entry = "main"
    /\ ~demo
    /\ "AccountFetchFailed" \in fatal
    /\ friends_ids_list # <<>>
    /\ twtr_status = "terminated"
    /\ botm_status = "idle"
    /\ "check_account" \notin net

CredsLoaded ==
    /\ env_i = Len(env_vars)
    /\ Range(env_vars) \subseteq EnvNames(creds)

MailStages == {"send_email_report", "smtp_connect", "smtp_login", "smtp_sendmail"}

\* C24: in every run of main the stages happen in the order credential loading,
\* friend-ID collection, bot-likelihood collection, render, write, mail; no
\* stage starts before the previous one returned; the collector is given the
\* list get_friends_ids returned and the mail dispatcher the path the write
\* returned.
C24_StageOrder ==
    entry = "main" =>
        /\ (pc \notin {"get_env_vars", "exited"} \/ net # {} \/ twtr_status # "idle"
               \/ report_render # <<>>)
              => CredsLoaded
        /\ twtr_status = "running"
              => /\ botm_status = "idle" /\ responses = <<>>
                 /\ report_render = <<>>
        /\ botm_status # "idle"
              => /\ twtr_status = "returned"
                 /\ friends = friends_ids
        /\ botm_status = "running"
              => /\ report_render = <<>> /\ files = {} /\ smtp = <<>>
        /\ (pc = "render" \/ report_render # <<>>)
              => /\ demo \/ botm_status = "returned"
                 /\ twtr_status # "running"
        /\ pc = "render"
              => /\ report_render = <<>> /\ files = {}
                 /\ report_file_path = <<>> /\ message = <<>> /\ smtp = <<>>
        /\ pc \in {"create_reports_dir", "dump_report"}
              => /\ report_render # <<>>
                 /\ report_render[1].friends_bot_likelihood_scores = scores.list
                 /\ files = {} /\ message = <<>> /\ smtp = <<>>
        /\ pc = "dump_report" => args.reports_dir \in dirs
        /\ report_file_path # <<>>
              => /\ report_render # <<>>
                 /\ args.reports_dir \in dirs
        /\ (pc \in MailStages \/ message # <<>> \/ smtp # <<>> \/ "smtp" \in net)
              => /\ report_file_path # <<>>
                 /\ \E f \in files : /\ f.path = report_file_path
                                     /\ f.content = report_render[1]
        /\ message # <<>> => message.attachments = <<report_file_path>>
        /\ smtp # <<>> => message # <<>>

\* a complete run of main without --demo: every stage has run, the last one on
\* the products of the ones before it
C24_Witness ==
    /\ entry = "main"
    /\ ~demo
    /\ pc = "done"
    /\ CredsLoaded
    /\ twtr_status = "returned" /\ botm_status = "returned"
    /\ friends = friends_ids
    /\ report_render # <<>>
    /\ message.attachments = <<report_file_path>>
    /\ Last(smtp) = "sendmail"


\* C25: the timestamp in the rendered report is the datetime_str the caller of
\* render_report supplied (in main the value of get_datetime, main.py 101); the
\* renderer takes no timestamp of its own.
C25_CallerTimestamp ==
    (entry \in {"main", "unit_render", "unit_dump"} /\ report_render # <<>>)
        => report_render[1].datetime_str
               = IF entry = "main" THEN get_datetime ELSE args.datetime_str


\* an error of the friend-ID fetch has reached get_friends_ids
FetchErrorSurfaced == Logged(log, "ERROR", "Failed to get @")

\* C22 as stated: both clients are configured with retry_count 2, retry_delay 3
\* and waiting on the rate limit, so that a failed request is retried at most 2
\* times, 3 seconds apart, before an error reaches the collector, and a
\* rate-limit exhaustion never reaches it.
C22_RetryTwice ==
    entry = "main" =>
        /\ twitter_api # <<>> => twitter_api = [retry_count |-> 2, retry_delay |-> 3,
                                                wait_on_rate_limit |-> TRUE]
        /\ botometer_api # <<>>
              => /\ botometer_api.tweepy_kwargs = [retry_count |-> 2, retry_delay |-> 3]
                 /\ botometer_api.wait_on_ratelimit
        /\ retries <= 2
        /\ botm_status = "idle" => slept = 3 * retries
        /\ (FetchErrorSurfaced \/ \E i \in DOMAIN responses : FaultAt(i))
              => retries = 2
        /\ \A j \in DOMAIN log : log[j].text # FetchFailedText("RateLimitError")

\* C22 (amended): the friend-ID client retries a failed request at most 2 times,
\* 3 seconds apart, before its error reaches get_friends_ids, and waits on the
\* rate limit instead of raising; the Botometer client is built with the same
\* tweepy_kwargs and wait_on_ratelimit, while the request for one account is
\* retried up to 3 times (check_accounts_in retries=3) before a fault reaches
\* the collector.
C22_RetryPolicy ==
    entry \in {"main", "unit_auth"} =>
        /\ twitter_api # <<>> => twitter_api = [retry_count |-> 2, retry_delay |-> 3,
                                                wait_on_rate_limit |-> TRUE]
        /\ botometer_api # <<>>
              => /\ botometer_api.tweepy_kwargs = [retry_count |-> 2, retry_delay |-> 3]
                 /\ botometer_api.wait_on_ratelimit
        /\ botm_status = "idle"
              => /\ retries <= 2
                 /\ slept = 3 * retries
        /\ FetchErrorSurfaced => retries = 2 /\ slept = 6
        /\ botm_status # "idle" => retries <= 3
        /\ (\E i \in DOMAIN responses : FaultAt(i)) => retries = 3
        /\ \A j \in DOMAIN log : log[j].text # FetchFailedText("RateLimitError")
        /\ (retries > 0 \/ waited) => (twitter_api # <<>> /\ botometer_api # <<>>)
        /\ waited => /\ ~FetchErrorSurfaced
                     /\ \A i \in DOMAIN responses : ~FaultAt(i)

\* in main the scoring client answered for the first account, retried the
\* request for the second one three times and then raised to the collector
C22_Witness ==
    /\ entry = "main"
    /\ Len(responses) = 2
    /\ FaultAt(2)
    /\ retries = 3
    /\ botometer_api = botometer_Botometer

====
